---- MODULE Spec2Model ----
(***************************************************************************)
(* rancher-upgrader: the upgrade-path resolver                             *)
(* (Client.GetNextSupportedRancherChartVersion), the version range builder *)
(* (getReleasesBetweenInclusive), the release-notes differ                 *)
(* (parseReleaseNotes) and the UpgradeRancher command that composes them.  *)
(*                                                                         *)
(* A version string "M.m.p" is the sequence <<M, m, p>> of its dotted      *)
(* numeric components; a string with another number of components is       *)
(* malformed.  The empty string "" is the empty sequence.  A parsed        *)
(* semver.Version is a record [Major, Minor, Patch].                       *)
(*                                                                         *)
(* A uint64 is represented by its residue in a window around 0: r >= 0 is  *)
(* the value r, and r < 0 is the value 2^64 + r (the result of an unsigned *)
(* subtraction that wrapped).  Sums and differences of such                *)
(* representatives are exact modulo 2^64 for the magnitudes used here.     *)
(***************************************************************************)
EXTENDS Integers, Sequences, FiniteSets, TLC

\* ------------------------------------------------------------------ bounds
MaxPatch == 2
MaxCatalog == 3

Majors == {1, 2}
Minors == {0, 1, 2}
Patches == 0..MaxPatch

\* Well-formed version strings of the catalog, and one malformed string.
Universe == {<<M, m, p>> : M \in Majors, m \in Minors, p \in Patches}
Malformed == <<1, 1>>
NoVersion == <<>>

\* ------------------------------------------------------- semver and strings
\* semver.New: three numeric components, or an error.
semverNew(s) ==
  IF Len(s) = 3
    THEN [err |-> FALSE, Major |-> s[1], Minor |-> s[2], Patch |-> s[3]]
    ELSE [err |-> TRUE, Major |-> 0, Minor |-> 0, Patch |-> 0]

\* fmt.Sprintf("%d.%d.%d", major, minor, patch)
Sprintf3(major, minor, patch) == <<major, minor, patch>>

\* Unsigned 64-bit subtraction and addition on window representatives.
U64Sub(a, b) == a - b
U64Add(a, b) == a + b

\* ChartVersions.Less: semantic-version order on the version strings.
Less(a, b) ==
  \/ a[1] < b[1]
  \/ a[1] = b[1] /\ a[2] < b[2]
  \/ a[1] = b[1] /\ a[2] = b[2] /\ a[3] < b[3]

RECURSIVE InsertDesc(_, _)
InsertDesc(v, s) ==
  IF s = <<>> THEN <<v>>
  ELSE IF Less(Head(s), v) THEN <<v>> \o s
  ELSE <<Head(s)>> \o InsertDesc(v, Tail(s))

RECURSIVE InsertAsc(_, _)
InsertAsc(v, s) ==
  IF s = <<>> THEN <<v>>
  ELSE IF Less(v, Head(s)) THEN <<v>> \o s
  ELSE <<Head(s)>> \o InsertAsc(v, Tail(s))

\* The sort with the order reversed: oldest release first.
RECURSIVE SortEntriesAscending(_)
SortEntriesAscending(s) ==
  IF s = <<>> THEN <<>> ELSE InsertAsc(Head(s), SortEntriesAscending(Tail(s)))

\* IndexFile.SortEntries: sort.Sort(sort.Reverse(versions)), newest release
\* in slot 0.
RECURSIVE SortEntries(_)
SortEntries(s) ==
  IF s = <<>> THEN <<>> ELSE InsertDesc(Head(s), SortEntries(Tail(s)))

\* The entries of a chart as the index file lists them, before any sort.
RECURSIVE SetToSeq(_)
SetToSeq(S) ==
  IF S = {} THEN <<>>
  ELSE LET x == CHOOSE y \in S : TRUE IN <<x>> \o SetToSeq(S \ {x})

Range(s) == {s[i] : i \in 1..Len(s)}

\* ------------------------------------------------------------ the resolver
\* The scan of GetNextSupportedRancherChartVersion over the sorted entries,
\* from position i with the next-minor candidate found so far.
RECURSIVE ScanEntries(_, _, _, _)
ScanEntries(sorted, i, cur, nextMinorUpgrade) ==
  IF i > Len(sorted)
    THEN [err |-> FALSE, nextMinorUpgrade |-> nextMinorUpgrade,
          latestPatch |-> NoVersion]
    ELSE LET chartSemver == semverNew(sorted[i]) IN
      IF chartSemver.err
        THEN [err |-> TRUE, nextMinorUpgrade |-> NoVersion,
              latestPatch |-> NoVersion]
      ELSE IF nextMinorUpgrade = NoVersion
              /\ U64Sub(chartSemver.Minor, 1) = cur.Minor
        THEN ScanEntries(sorted, i + 1, cur, sorted[i])
      ELSE IF chartSemver.Minor # cur.Minor
        THEN ScanEntries(sorted, i + 1, cur, nextMinorUpgrade)
      ELSE [err |-> FALSE, nextMinorUpgrade |-> nextMinorUpgrade,
            latestPatch |-> sorted[i]]

\* The decision after the scan with the final "up to date" return lost: the
\* zero string is returned instead of the current version.
ChooseNextNoTerminal(currentVersion, scan) ==
  IF scan.err THEN [ver |-> NoVersion, err |-> "parse"]
  ELSE IF scan.latestPatch = NoVersion
    THEN [ver |-> NoVersion, err |-> "nopatch"]
  ELSE IF currentVersion # scan.latestPatch
    THEN [ver |-> scan.latestPatch, err |-> ""]
  ELSE IF scan.nextMinorUpgrade # NoVersion
    THEN [ver |-> scan.nextMinorUpgrade, err |-> ""]
  ELSE [ver |-> NoVersion, err |-> ""]

\* The decision after the scan: patch first, then next minor, then current.
ChooseNext(currentVersion, scan) ==
  IF scan.err THEN [ver |-> NoVersion, err |-> "parse"]
  ELSE IF scan.latestPatch = NoVersion
    THEN [ver |-> NoVersion, err |-> "nopatch"]
  ELSE IF currentVersion # scan.latestPatch
    THEN [ver |-> scan.latestPatch, err |-> ""]
  ELSE IF scan.nextMinorUpgrade # NoVersion
    THEN [ver |-> scan.nextMinorUpgrade, err |-> ""]
  ELSE [ver |-> currentVersion, err |-> ""]

\* Client.GetNextSupportedRancherChartVersion on the index entries:
\* [ver, err], err = "" on success.
GetNextSupportedRancherChartVersion(currentVersion, indexEntries) ==
  LET currentChartVersion == semverNew(currentVersion) IN
    IF currentChartVersion.err THEN [ver |-> NoVersion, err |-> "parse"]
    ELSE ChooseNext(currentVersion,
                    ScanEntries(SortEntries(indexEntries), 1,
                                currentChartVersion, NoVersion))

\* ------------------------------------------------------- the range builder
\* getReleasesBetweenInclusive with the loop bound i < diff: the last string
\* of the slice is left empty.
getReleasesBetweenExclusive(startingRelease, finalRelease) ==
  LET startingSemver == semverNew(startingRelease)
      finalSemver == semverNew(finalRelease)
  IN IF startingSemver.err \/ finalSemver.err
       THEN [releases |-> <<>>, err |-> "parse", panic |-> FALSE]
     ELSE LET diff == U64Sub(finalSemver.Patch, startingSemver.Patch)
              length == U64Add(diff, 1)
          IN IF length < 0
               THEN [releases |-> <<>>, err |-> "", panic |-> TRUE]
             ELSE [releases |->
                     [i \in 1..length |->
                        IF i - 1 < diff
                          THEN Sprintf3(startingSemver.Major,
                                        startingSemver.Minor,
                                        U64Add(startingSemver.Patch, i - 1))
                          ELSE NoVersion],
                   err |-> "", panic |-> FALSE]

\* getReleasesBetweenInclusive: [releases, err, panic].  diff + 1 is the
\* length given to make: a negative representative is a length of
\* 2^64 + (diff + 1), beyond any slice, and make panics ("makeslice: len out
\* of range"); diff = 2^64 - 1 gives the length 0.
getReleasesBetweenInclusive(startingRelease, finalRelease) ==
  LET startingSemver == semverNew(startingRelease)
      finalSemver == semverNew(finalRelease)
  IN IF startingSemver.err \/ finalSemver.err
       THEN [releases |-> <<>>, err |-> "parse", panic |-> FALSE]
     ELSE LET diff == U64Sub(finalSemver.Patch, startingSemver.Patch)
              length == U64Add(diff, 1)
          IN IF length < 0
               THEN [releases |-> <<>>, err |-> "", panic |-> TRUE]
             ELSE [releases |->
                     [i \in 1..length |->
                        Sprintf3(startingSemver.Major, startingSemver.Minor,
                                 U64Add(startingSemver.Patch, i - 1))],
                   err |-> "", panic |-> FALSE]

\* ------------------------------------------------------------------- text
\* A notes document is a sequence of tokens.  Each header constant is one
\* token, "- " (the bullet delimiter) is one token, "CM" is one markdown
\* comment the comment expression matches, "NL" is one escaped line break
\* (the four characters \r\n of the JSON body), every other token is text.
majorBugFixHeader == <<"BF">>
rancherBehaviorChangesHeader == <<"BC">>
knownIssuesHeader == <<"KI">>
installUpgradeNotesHeader == <<"IU">>
bulletDelimiter == <<"- ">>
markdownComment == <<"CM">>
escapedLineBreak == <<"NL">>

\* s[lo:hi] of Go, 0-based, hi exclusive.
Slice(s, lo, hi) == SubSeq(s, lo + 1, hi)

\* strings.Index: the 0-based position of the first occurrence, or -1.
Index(s, sub) ==
  LET hits == {i \in 0..(Len(s) - Len(sub)) : Slice(s, i, i + Len(sub)) = sub}
  IN IF hits = {} THEN -1 ELSE CHOOSE i \in hits : \A j \in hits : i <= j

\* strings.ReplaceAll(s, old, "") for a non-empty old.
RECURSIVE ReplaceAll(_, _)
ReplaceAll(s, old) ==
  LET i == Index(s, old) IN
    IF i = -1 THEN s
    ELSE Slice(s, 0, i) \o ReplaceAll(Slice(s, i + Len(old), Len(s)), old)

\* strings.Replace(s, old, "", 1).
ReplaceFirst(s, old) ==
  LET i == Index(s, old) IN
    IF i = -1 THEN s
    ELSE Slice(s, 0, i) \o Slice(s, i + Len(old), Len(s))

\* strings.Split(s, sep) for a non-empty sep.
RECURSIVE Split(_, _)
Split(s, sep) ==
  LET i == Index(s, sep) IN
    IF i = -1 THEN <<s>>
    ELSE <<Slice(s, 0, i)>> \o Split(Slice(s, i + Len(sep), Len(s)), sep)

\* parseNotesSections: [body, panic].  The slice expression panics when the
\* end marker starts before the end of the begin marker.
parseNotesSections(header1, header2, notes) ==
  LET startIndex == Index(notes, header1)
      stopIndex == Index(notes, header2)
  IN IF startIndex = -1 \/ stopIndex = -1
       THEN [body |-> <<>>, panic |-> FALSE]
     ELSE IF startIndex + Len(header1) > stopIndex
       THEN [body |-> <<>>, panic |-> TRUE]
     ELSE [body |-> ReplaceAll(Slice(notes, startIndex + Len(header1),
                                     stopIndex), escapedLineBreak),
           panic |-> FALSE]

\* parseBulletPoints
parseBulletPoints(section) == Split(section, bulletDelimiter)

\* The addition of a release taken to be its full body, whatever the last
\* release's body.
recentAdditionWhole(fullBody, lastReleaseBody) == fullBody

\* The addition of a release: the full body with the first occurrence of the
\* last release's full body removed, or the full body when there is none.
recentAddition(fullBody, lastReleaseBody) ==
  IF lastReleaseBody # <<>> THEN ReplaceFirst(fullBody, lastReleaseBody)
  ELSE fullBody

\* A response of the changelog fetcher: a transport error, or a status and a
\* body.
NotFoundBody == <<"Not Found">>
Response(err, status, body) == [err |-> err, status |-> status, body |-> body]

\* getReleaseNotes: http.Get returns an error only when the transport fails;
\* the body of any response, whatever its status, is returned as the notes.
getReleaseNotes(resp) ==
  IF resp.err THEN [body |-> <<>>, err |-> "fetch"]
  ELSE [body |-> resp.body, err |-> ""]

\* ---------------------------------------------------------------- prompts
\* What reader.ReadString('\n') can return: a line (written without its
\* line break), or an error at the end of the input.
EndOfInput == "EOF"
ContinueLines == {"y", " Y", "n", "", "x"}
OptionLines == {"1", "2", "", "x"}

\* The lines promptForContinue is run on alone.
PromptLines == ContinueLines \cup {"Y", "y ", "N", " n", " ", "yes", "no"}

\* strings.ToLower(strings.TrimSpace(line)), on the lines above.
TrimLower(line) ==
  CASE line \in {"Y", " Y", "y "} -> "y"
    [] line \in {"N", " n"} -> "n"
    [] line = " " -> ""
    [] OTHER -> line

\* promptForContinue on the line it reads: "yes" or "no" (the value
\* returned), "err" (the reader failed) or "again" (the loop prompts again).
\* The loop runs while answer == "": it is left on "y", on "n", and on any
\* other answer that is not empty, and answer == "y" is returned.
promptForContinue(read) ==
  IF read = EndOfInput THEN "err"
  ELSE LET answer == TrimLower(read) IN
    IF answer = "y" THEN "yes"
    ELSE IF answer = "n" THEN "no"
    ELSE IF answer = "" THEN "again"
    ELSE "no"

\* len(release) for a version string "M.m.p": the digits and the two dots.
DecLen(n) == IF n < 10 THEN 1 ELSE 2
StrLen(release) ==
  IF Len(release) = 0 THEN 0
  ELSE DecLen(release[1]) + DecLen(release[2]) + DecLen(release[3]) + 2

\* A bullet that displayBugFixes and displayKnownIssues print.
Displayed(bullet) == bullet # <<>> /\ bullet # <<"-->">>

\* displayKnownIssues: the position of the first issue printed after
\* position from, 0 when there is none.
NextIssue(issues, from) ==
  LET later == {i \in (from + 1)..Len(issues) : Displayed(issues[i])} IN
    IF later = {} THEN 0 ELSE CHOOSE i \in later : \A j \in later : i <= j

\* One iteration of the loop of parseReleaseNotes that goes on to the next
\* release when the fetch fails.
parseReleaseNotesStepSkipping(st, resp) ==
  LET got == getReleaseNotes(resp) IN
    IF got.err # ""
      THEN [st EXCEPT !.index = st.index + 1, !.outcome = "next"]
    ELSE
      LET releaseNotes == ReplaceAll(got.body, markdownComment)
          bug == parseNotesSections(majorBugFixHeader,
                                    rancherBehaviorChangesHeader, releaseNotes)
          known == parseNotesSections(knownIssuesHeader,
                                      installUpgradeNotesHeader, releaseNotes)
      IN IF bug.panic \/ known.panic THEN [st EXCEPT !.outcome = "panic"]
         ELSE [index |-> st.index + 1,
               lastReleaseBugfixes |-> bug.body,
               lastReleaseKnownIssues |-> known.body,
               bugfixes |-> [st.bugfixes EXCEPT ![st.index + 1] =
                   parseBulletPoints(
                     recentAddition(bug.body, st.lastReleaseBugfixes))],
               knownIssues |-> [st.knownIssues EXCEPT ![st.index + 1] =
                   parseBulletPoints(
                     recentAddition(known.body, st.lastReleaseKnownIssues))],
               outcome |-> "next"]

\* One iteration of the loop of parseReleaseNotes that carries to the next
\* iteration the additions it emitted instead of the full section bodies.
parseReleaseNotesStepCarryingAddition(st, resp) ==
  LET got == getReleaseNotes(resp) IN
    IF got.err # ""
      THEN [st EXCEPT !.bugfixes = <<>>, !.knownIssues = <<>>,
                      !.outcome = "err"]
    ELSE
      LET releaseNotes == ReplaceAll(got.body, markdownComment)
          bug == parseNotesSections(majorBugFixHeader,
                                    rancherBehaviorChangesHeader, releaseNotes)
          known == parseNotesSections(knownIssuesHeader,
                                      installUpgradeNotesHeader, releaseNotes)
      IN IF bug.panic \/ known.panic THEN [st EXCEPT !.outcome = "panic"]
         ELSE
           LET bugAdded == recentAddition(bug.body, st.lastReleaseBugfixes)
               knownAdded ==
                 recentAddition(known.body, st.lastReleaseKnownIssues)
           IN [index |-> st.index + 1,
               lastReleaseBugfixes |-> bugAdded,
               lastReleaseKnownIssues |-> knownAdded,
               bugfixes |-> [st.bugfixes EXCEPT ![st.index + 1] =
                               parseBulletPoints(bugAdded)],
               knownIssues |-> [st.knownIssues EXCEPT ![st.index + 1] =
                                  parseBulletPoints(knownAdded)],
               outcome |-> "next"]

\* One iteration of the loop of parseReleaseNotes, for the release at
\* st.index (0-based) and the response the fetcher gave for it.  The outcome
\* is "next" (the loop goes on), "err" (nil, nil, err is returned) or "panic".
\* When the bugfix extraction panics nothing after it runs.
parseReleaseNotesStep(st, resp) ==
  LET got == getReleaseNotes(resp) IN
    IF got.err # ""
      THEN [st EXCEPT !.bugfixes = <<>>, !.knownIssues = <<>>,
                      !.outcome = "err"]
    ELSE
      LET releaseNotes == ReplaceAll(got.body, markdownComment)
          bug == parseNotesSections(majorBugFixHeader,
                                    rancherBehaviorChangesHeader, releaseNotes)
          known == parseNotesSections(knownIssuesHeader,
                                      installUpgradeNotesHeader, releaseNotes)
      IN IF bug.panic \/ known.panic THEN [st EXCEPT !.outcome = "panic"]
         ELSE [index |-> st.index + 1,
               lastReleaseBugfixes |-> bug.body,
               lastReleaseKnownIssues |-> known.body,
               bugfixes |-> [st.bugfixes EXCEPT ![st.index + 1] =
                   parseBulletPoints(
                     recentAddition(bug.body, st.lastReleaseBugfixes))],
               knownIssues |-> [st.knownIssues EXCEPT ![st.index + 1] =
                   parseBulletPoints(
                     recentAddition(known.body, st.lastReleaseKnownIssues))],
               outcome |-> "next"]

VARIABLES
  pc,              \* position in the command (or in the operation under test)
  retErr,          \* the error returned, "" for none
  entries,         \* c.index.Entries["rancher"], in slice order
  currentVersion,  \* the installed release's chart version string
  nextVersion,     \* nextSupportedChartVersion
  seen,            \* the installed version, then each version resolved from it
  releases,        \* releaseSemverStrings
  index,           \* parseReleaseNotes: releases processed so far
  lastReleaseBugfixes,     \* full bugfix body of the last release processed
  lastReleaseKnownIssues,  \* full known-issues body of the last release
  bugfixes,        \* bullet lists per release, as parseReleaseNotes holds them
  knownIssues,
  fetched,         \* the http.Get calls made: [release, err, status]
  helmExecer,      \* u.helmExecer: "nil" or "client"
  prompted,        \* a "Continue? [y/n]" prompt has been printed
  walkIndex,       \* walkthroughRelevantNotes: the loop index
  issueIndex,      \* displayKnownIssues: position of the issue being shown
  cont,            \* what walkthroughRelevantNotes returned
  values,          \* chartValuesPrompt: the override values held
  upgraded,        \* helmExecer.Upgrade has been called
  lines            \* promptForContinue alone: the lines read so far

resolverVars == <<entries, currentVersion, nextVersion, seen>>
differVars == <<releases, index, lastReleaseBugfixes, lastReleaseKnownIssues,
                bugfixes, knownIssues, fetched>>
promptVars == <<helmExecer, prompted, walkIndex, issueIndex, cont, values,
                upgraded, lines>>
vars == <<pc, retErr, resolverVars, differVars, promptVars>>

DifferIdle ==
  /\ releases = <<>>
  /\ index = 0
  /\ lastReleaseBugfixes = <<>>
  /\ lastReleaseKnownIssues = <<>>
  /\ bugfixes = <<>>
  /\ knownIssues = <<>>
  /\ fetched = <<>>

PromptsIdle ==
  /\ helmExecer = "client"
  /\ prompted = FALSE
  /\ walkIndex = 0
  /\ issueIndex = 0
  /\ cont = TRUE
  /\ values = "none"
  /\ upgraded = FALSE
  /\ lines = <<>>

\* ----------------------------------------- specification: repeated resolve
\* The catalogs of at most k versions.
RECURSIVE CatalogsUpTo(_)
CatalogsUpTo(k) ==
  IF k = 0 THEN {{}}
  ELSE LET smaller == CatalogsUpTo(k - 1) IN
    smaller \cup {S \cup {v} : S \in smaller, v \in Universe}
Catalogs == CatalogsUpTo(MaxCatalog)

InitResolve ==
  /\ pc = "resolve"
  /\ \E S \in Catalogs : entries = SortEntries(SetToSeq(S))
  /\ currentVersion \in Universe \cup {Malformed}
  /\ nextVersion = NoVersion
  /\ retErr = ""
  /\ seen = <<currentVersion>>
  /\ DifferIdle
  /\ PromptsIdle

\* One run of the resolver on the installed version.
Resolve ==
  /\ pc = "resolve"
  /\ LET r == GetNextSupportedRancherChartVersion(currentVersion, entries) IN
       /\ entries' = SortEntries(entries)
       /\ retErr' = r.err
       /\ nextVersion' = r.ver
       /\ seen' = IF r.err = "" THEN Append(seen, r.ver) ELSE seen
       /\ pc' = IF r.err # "" THEN "resolve-failed"
                ELSE IF r.ver = currentVersion THEN "uptodate"
                ELSE "resolved"
  /\ UNCHANGED <<currentVersion, differVars, promptVars>>

\* The upgrade to the resolved version is installed and the tool run again.
Reinstall ==
  /\ pc = "resolved"
  /\ currentVersion' = nextVersion
  /\ pc' = "resolve"
  /\ UNCHANGED <<entries, nextVersion, retErr, seen, differVars, promptVars>>

NextResolve == Resolve \/ Reinstall

SpecResolve == InitResolve /\ [][NextResolve]_vars

\* ------------------------------------------- specification: range builder
InitRange ==
  /\ pc = "range"
  /\ retErr = ""
  /\ entries = <<>>
  /\ currentVersion \in Universe \cup {Malformed}
  /\ nextVersion \in Universe \cup {Malformed}
  /\ seen = <<>>
  /\ DifferIdle
  /\ PromptsIdle

\* getReleasesBetweenInclusive(currentVersion, nextVersion)
BuildRange ==
  /\ pc = "range"
  /\ LET r == getReleasesBetweenInclusive(currentVersion, nextVersion) IN
       /\ releases' = r.releases
       /\ retErr' = r.err
       /\ pc' = IF r.panic THEN "range-crashed"
                ELSE IF r.err # "" THEN "range-failed"
                ELSE "ranged"
  /\ UNCHANGED <<resolverVars, index, lastReleaseBugfixes,
                 lastReleaseKnownIssues, bugfixes, knownIssues, fetched,
                 promptVars>>

NextRange == BuildRange

SpecRange == InitRange /\ [][NextRange]_vars

\* --------------------------------------------- specification: the differ
\* Notes documents the fetcher can return.
DocOne ==
  <<"BF", "NL", "- ", "a", "NL", "BC", "KI", "- ", "x", "NL", "IU">>
DocTwo ==
  <<"BF", "NL", "- ", "a", "NL", "- ", "b", "CM", "BC",
    "KI", "- ", "x", "NL", "- ", "y", "IU">>
\* DocTwo with one more bullet appended to each section.
DocThree ==
  <<"BF", "NL", "- ", "a", "NL", "- ", "b", "NL", "- ", "c", "BC",
    "KI", "- ", "x", "NL", "- ", "y", "NL", "- ", "z", "IU">>
\* DocTwo with a new bullet inserted between its bullets.
DocMid ==
  <<"BF", "NL", "- ", "a", "NL", "- ", "n", "NL", "- ", "b", "BC",
    "KI", "- ", "x", "NL", "- ", "m", "NL", "- ", "y", "IU">>
DocBare == <<"t">>
DocInverted == <<"BC", "BF", "KI", "IU">>
Docs == {DocOne, DocTwo, DocThree, DocMid, DocBare, DocInverted}

\* What the fetcher may answer: a transport error, a document, or an error
\* status with its body.
Responses(documents, statuses) ==
  {Response(TRUE, "", <<>>)}
    \cup {Response(FALSE, "200", d) : d \in documents}
    \cup {Response(FALSE, status, NotFoundBody) : status \in statuses}

\* The ranges the differ is run on: what the range builder returns.
Ranges ==
  {getReleasesBetweenInclusive(a, b).releases : a \in Universe, b \in Universe}

InitDiff ==
  /\ pc = "notes"
  /\ retErr = ""
  /\ entries = <<>>
  /\ currentVersion = NoVersion
  /\ nextVersion = NoVersion
  /\ seen = <<>>
  /\ releases \in Ranges
  /\ index = 0
  /\ lastReleaseBugfixes = <<>>
  /\ lastReleaseKnownIssues = <<>>
  /\ bugfixes = [i \in 1..Len(releases) |-> <<>>]
  /\ knownIssues = [i \in 1..Len(releases) |-> <<>>]
  /\ fetched = <<>>
  /\ PromptsIdle

\* One iteration of parseReleaseNotes: the fetch of releases[index] and what
\* follows it.
FetchNotes(documents, statuses) ==
  /\ pc = "notes"
  /\ index < Len(releases)
  /\ \E resp \in Responses(documents, statuses) :
       LET st == parseReleaseNotesStep(
                   [index |-> index,
                    lastReleaseBugfixes |-> lastReleaseBugfixes,
                    lastReleaseKnownIssues |-> lastReleaseKnownIssues,
                    bugfixes |-> bugfixes, knownIssues |-> knownIssues,
                    outcome |-> "next"], resp)
       IN /\ fetched' = Append(fetched,
                               [release |-> releases[index + 1],
                                err |-> resp.err, status |-> resp.status,
                                body |-> resp.body])
          /\ index' = st.index
          /\ lastReleaseBugfixes' = st.lastReleaseBugfixes
          /\ lastReleaseKnownIssues' = st.lastReleaseKnownIssues
          /\ bugfixes' = st.bugfixes
          /\ knownIssues' = st.knownIssues
          /\ retErr' = IF st.outcome = "err" THEN "fetch" ELSE retErr
          /\ pc' = CASE st.outcome = "err" -> "notes-failed"
                     [] st.outcome = "panic" -> "notes-crashed"
                     [] OTHER -> "notes"
  /\ UNCHANGED <<resolverVars, releases, promptVars>>

\* parseReleaseNotes returns bugfixes, knownIssues, nil after the last
\* release.
NotesParsed ==
  /\ pc = "notes"
  /\ index >= Len(releases)
  /\ pc' = "parsed"
  /\ UNCHANGED <<retErr, resolverVars, differVars, promptVars>>

NextDiff == FetchNotes(Docs, {"404", "500"}) \/ NotesParsed

SpecDiff == InitDiff /\ [][NextDiff]_vars

\* ------------------------------------- specification: the upgrade command
MaxFlowPatch == 4

\* Versions of the index in the runs of the command, and installed versions.
FlowUniverse ==
  {<<1, 0, p>> : p \in 0..MaxFlowPatch} \cup {<<1, 1, 0>>, <<1, 1, 1>>, <<2, 0, 0>>}
FlowCatalogs == {S \in SUBSET FlowUniverse : Cardinality(S) <= 2}
FlowCurrents == {<<1, 0, 0>>, <<1, 0, 1>>, <<1, 0, 2>>, <<1, 1, 1>>, Malformed}
FlowDocs == {DocOne, DocTwo}

Init ==
  /\ pc = "start"
  /\ retErr = ""
  /\ \E S \in FlowCatalogs : entries = SortEntries(SetToSeq(S))
  /\ currentVersion \in FlowCurrents
  /\ nextVersion = NoVersion
  /\ seen = <<currentVersion>>
  /\ DifferIdle
  /\ helmExecer = "nil"
  /\ prompted = FALSE
  /\ walkIndex = 0
  /\ issueIndex = 0
  /\ cont = TRUE
  /\ values \in {"none", "active"}
  /\ upgraded = FALSE
  /\ lines = <<>>

\* u.Init: helm.NewClient exits the process when the cluster cannot be
\* reached, and returns an error for a missing repository, a failed update
\* or an unreadable index; UpgradeRancher drops that error.
InitClient ==
  /\ pc = "start"
  /\ \E outcome \in {"ok", "exit", "err"} :
       /\ helmExecer' = IF outcome = "ok" THEN "client" ELSE "nil"
       /\ pc' = IF outcome = "exit" THEN "exited" ELSE "find"
  /\ UNCHANGED <<lines, retErr, resolverVars, differVars, prompted, walkIndex,
                 issueIndex, cont, values, upgraded>>

\* u.helmExecer.FindRancherRelease(): a call on the nil interface panics.
FindRancherRelease ==
  /\ pc = "find"
  /\ \E found \in BOOLEAN :
       /\ pc' = IF helmExecer = "nil" THEN "find-crashed"
                ELSE IF found THEN "resolve" ELSE "find-failed"
       /\ retErr' = IF helmExecer # "nil" /\ ~found THEN "find" ELSE retErr
  /\ UNCHANGED <<resolverVars, differVars, promptVars>>

\* GetRancherChartForVersion, the "Next available update" line and the first
\* prompt.
GetRancherChartForVersion ==
  /\ pc = "resolved"
  /\ IF nextVersion \in Range(entries)
       THEN pc' = "confirm" /\ prompted' = TRUE /\ UNCHANGED retErr
       ELSE pc' = "chart-failed" /\ retErr' = "chart" /\ UNCHANGED prompted
  /\ UNCHANGED <<lines, resolverVars, differVars, helmExecer, walkIndex, issueIndex,
                 cont, values, upgraded>>

\* The answer to the first prompt.
ConfirmAnswer ==
  /\ pc = "confirm"
  /\ \E read \in ContinueLines \cup {EndOfInput} :
       LET answer == promptForContinue(read) IN
         /\ pc' = CASE answer = "err" -> "read-failed"
                    [] answer = "yes" -> "range"
                    [] answer = "no" -> "declined"
                    [] OTHER -> pc
         /\ retErr' = IF answer = "err" THEN "read" ELSE retErr
  /\ UNCHANGED <<resolverVars, differVars, promptVars>>

\* parseReleaseNotes: the two result slices are made.
NotesBegin ==
  /\ pc = "ranged"
  /\ pc' = "notes"
  /\ index' = 0
  /\ bugfixes' = [i \in 1..Len(releases) |-> <<>>]
  /\ knownIssues' = [i \in 1..Len(releases) |-> <<>>]
  /\ UNCHANGED <<retErr, resolverVars, releases, lastReleaseBugfixes,
                 lastReleaseKnownIssues, fetched, promptVars>>

\* walkthroughRelevantNotes: the opening lines read releases[0].
WalkBegin ==
  /\ pc = "parsed"
  /\ pc' = IF Len(releases) = 0 THEN "walk-crashed" ELSE "walk"
  /\ walkIndex' = 0
  /\ UNCHANGED <<lines, retErr, resolverVars, differVars, helmExecer, prompted,
                 issueIndex, cont, values, upgraded>>

\* walkthroughRelevantNotes: the head of the loop at walkIndex, up to the
\* prompt of displayBugFixes.  The loop is left when the index equals
\* len(release) - 1, the length of the version string, and releases[index+1]
\* is read without a test of the index.
WalkStep ==
  /\ pc = "walk"
  /\ IF walkIndex >= Len(releases)
          \/ walkIndex = StrLen(releases[walkIndex + 1]) - 1
       THEN pc' = "values" /\ cont' = TRUE /\ UNCHANGED prompted
       ELSE IF walkIndex + 1 >= Len(releases)
         THEN pc' = "walk-crashed" /\ UNCHANGED <<cont, prompted>>
         ELSE pc' = "bugfixPrompt" /\ prompted' = TRUE /\ UNCHANGED cont
  /\ UNCHANGED <<lines, retErr, resolverVars, differVars, helmExecer, walkIndex,
                 issueIndex, values, upgraded>>

\* The answer to the prompt of displayBugFixes; on yes, displayKnownIssues
\* up to its first prompt.
BugfixAnswer ==
  /\ pc = "bugfixPrompt"
  /\ \E read \in ContinueLines \cup {EndOfInput} :
       LET answer == promptForContinue(read)
           first == NextIssue(knownIssues[walkIndex + 2], 0)
       IN CASE answer = "err" ->
                 /\ pc' = "read-failed" /\ retErr' = "read"
                 /\ UNCHANGED <<walkIndex, issueIndex, cont>>
            [] answer = "no" ->
                 /\ pc' = "values" /\ cont' = FALSE
                 /\ UNCHANGED <<retErr, walkIndex, issueIndex>>
            [] answer = "yes" /\ first = 0 ->
                 /\ pc' = "walk" /\ walkIndex' = walkIndex + 1
                 /\ UNCHANGED <<retErr, issueIndex, cont>>
            [] answer = "yes" /\ first # 0 ->
                 /\ pc' = "issuePrompt" /\ issueIndex' = first
                 /\ UNCHANGED <<retErr, walkIndex, cont>>
            [] OTHER -> UNCHANGED <<pc, retErr, walkIndex, issueIndex, cont>>
  /\ UNCHANGED <<lines, resolverVars, differVars, helmExecer, prompted, values,
                 upgraded>>

\* The answer to the acknowledgement of one known issue.
IssueAnswer ==
  /\ pc = "issuePrompt"
  /\ \E read \in ContinueLines \cup {EndOfInput} :
       LET answer == promptForContinue(read)
           later == NextIssue(knownIssues[walkIndex + 2], issueIndex)
       IN CASE answer = "err" ->
                 /\ pc' = "read-failed" /\ retErr' = "read"
                 /\ UNCHANGED <<walkIndex, issueIndex, cont>>
            [] answer = "no" ->
                 /\ pc' = "values" /\ cont' = FALSE
                 /\ UNCHANGED <<retErr, walkIndex, issueIndex>>
            [] answer = "yes" /\ later = 0 ->
                 /\ pc' = "walk" /\ walkIndex' = walkIndex + 1
                 /\ issueIndex' = 0
                 /\ UNCHANGED <<retErr, cont>>
            [] answer = "yes" /\ later # 0 ->
                 /\ issueIndex' = later
                 /\ UNCHANGED <<pc, retErr, walkIndex, cont>>
            [] OTHER -> UNCHANGED <<pc, retErr, walkIndex, issueIndex, cont>>
  /\ UNCHANGED <<lines, resolverVars, differVars, helmExecer, prompted, values,
                 upgraded>>

\* chartValuesPrompt: the values are shown and the first question is read;
\* on y the coalesced values are computed and shown.
ValuesQuestion ==
  /\ pc = "values"
  /\ \E read \in ContinueLines \cup {EndOfInput}, coalesced \in BOOLEAN :
       LET answer == IF read = EndOfInput THEN "" ELSE TrimLower(read) IN
         /\ pc' = IF read = EndOfInput THEN "read-failed"
                  ELSE IF answer = "" THEN pc
                  ELSE IF answer = "y" /\ ~coalesced THEN "values-failed"
                  ELSE "option"
         /\ retErr' = IF read = EndOfInput THEN "read"
                      ELSE IF answer = "y" /\ ~coalesced THEN "coalesce"
                      ELSE retErr
  /\ UNCHANGED <<resolverVars, differVars, promptVars>>

\* chartValuesPrompt: the option is read.  1 returns the values held, 2 asks
\* for a values file, any other answer that is not empty shows the values
\* again.
OptionAnswer ==
  /\ pc = "option"
  /\ \E read \in OptionLines \cup {EndOfInput} :
       LET answer == IF read = EndOfInput THEN "" ELSE TrimLower(read) IN
         /\ pc' = IF read = EndOfInput THEN "read-failed"
                  ELSE IF answer = "1" THEN "upgrade"
                  ELSE IF answer = "2" THEN "upload"
                  ELSE IF answer = "" THEN pc
                  ELSE "values"
         /\ retErr' = IF read = EndOfInput THEN "read" ELSE retErr
  /\ UNCHANGED <<resolverVars, differVars, promptVars>>

\* uploadValuesPrompt: the path is read, the file opened, read and parsed.
\* chartValuesPrompt assigns the values returned and drops the error.
UploadValues ==
  /\ pc = "upload"
  /\ \E read \in {"values.yaml", EndOfInput}, loaded \in BOOLEAN :
       values' = IF read # EndOfInput /\ loaded THEN "file" ELSE "none"
  /\ pc' = "values"
  /\ UNCHANGED <<lines, retErr, resolverVars, differVars, helmExecer, prompted,
                 walkIndex, issueIndex, cont, upgraded>>

\* u.helmExecer.Upgrade(targetRelease, overrideValues)
Upgrade ==
  /\ pc = "upgrade"
  /\ upgraded' = TRUE
  /\ \E ok \in BOOLEAN :
       /\ pc' = IF ok THEN "done" ELSE "upgrade-failed"
       /\ retErr' = IF ok THEN retErr ELSE "upgrade"
  /\ UNCHANGED <<lines, resolverVars, differVars, helmExecer, prompted, walkIndex,
                 issueIndex, cont, values>>

Next ==
  \/ InitClient
  \/ FindRancherRelease
  \/ Resolve
  \/ GetRancherChartForVersion
  \/ ConfirmAnswer
  \/ BuildRange
  \/ NotesBegin
  \/ FetchNotes(FlowDocs, {"404"})
  \/ NotesParsed
  \/ WalkBegin
  \/ WalkStep
  \/ BugfixAnswer
  \/ IssueAnswer
  \/ ValuesQuestion
  \/ OptionAnswer
  \/ UploadValues
  \/ Upgrade

Spec == Init /\ [][Next]_vars

\* ------------------------------------------------- claims on the resolver
catalog == Range(entries)
WellFormed(v) == Len(v) = 3
\* The resolver has returned.
Resolved == pc # "resolve" /\ (Len(seen) > 1 \/ pc = "resolve-failed")

\* The entries of the catalog on the line M.m.x of version v.
MinorLine(v) == {w \in catalog : w[1] = v[1] /\ w[2] = v[2]}
\* The entries of the catalog on the line M.(m+1).x after version v.
NextMinorLine(v) == {w \in catalog : w[1] = v[1] /\ w[2] = v[2] + 1}
MaxPatchOf(S) == CHOOSE v \in S : \A w \in S : w[3] <= v[3]
MinPatchOf(S) == CHOOSE v \in S : \A w \in S : v[3] <= w[3]
IsLatestPatch(v) == MinorLine(v) # {} /\ v = MaxPatchOf(MinorLine(v))
\* Every entry of the catalog has the major of version v.
OneMajor(v) == \A w \in catalog : w[1] = v[1]

\* C1: patch-first policy.  For every current version c and every catalog
\* with at least one entry on c's minor line, if c is not the maximum-patch
\* entry of that line then the resolver returns exactly that entry, whether
\* or not a next-minor entry exists.
C1_PatchFirst ==
  (Resolved /\ WellFormed(currentVersion)
     /\ MinorLine(currentVersion) # {}
     /\ ~IsLatestPatch(currentVersion))
  => (retErr = "" /\ nextVersion = MaxPatchOf(MinorLine(currentVersion)))

\* C1 on the catalogs whose entries all have the current major.
C1_PatchFirstOneMajor == OneMajor(currentVersion) => C1_PatchFirst

\* C2: when the current version is the latest patch of its minor line and the
\* catalog has entries on the next minor line, the resolver returns the
\* latest (maximum-patch) entry of that next minor line.
C2_LatestOfNextMinor ==
  (Resolved /\ WellFormed(currentVersion)
     /\ IsLatestPatch(currentVersion)
     /\ NextMinorLine(currentVersion) # {})
  => (retErr = "" /\ nextVersion = MaxPatchOf(NextMinorLine(currentVersion)))

\* C2 on the catalogs whose entries all have the current major.
C2_LatestOfNextMinorOneMajor == OneMajor(currentVersion) => C2_LatestOfNextMinor

\* C3 as stated: when the current version is the latest patch of its minor
\* line and the catalog has entries on the next minor line, the resolver
\* returns the minimum-patch entry of that next minor line (the first
\* occurrence in a catalog sorted ascending).  Stated on the catalogs of one
\* major, where the minor lines of the claim are unambiguous.
C3_MinimumOfNextMinor ==
  (Resolved /\ WellFormed(currentVersion) /\ OneMajor(currentVersion)
     /\ IsLatestPatch(currentVersion)
     /\ NextMinorLine(currentVersion) # {})
  => (retErr = "" /\ nextVersion = MinPatchOf(NextMinorLine(currentVersion)))

\* Positions, in the sorted entries, of the entries with minor number m.
WithMinor(m) == {i \in 1..Len(entries) : entries[i][2] = m}
First(I) == CHOOSE i \in I : \A j \in I : i <= j
IsSortedDescending ==
  \A i \in 1..(Len(entries) - 1) : Less(entries[i + 1], entries[i])

\* C3, amended: when the current version is the first entry with its minor in
\* the catalog sorted descending (newest first, as SortEntries leaves it) and
\* an entry whose minor is current.minor + 1 sorts above it, the resolver
\* returns the first occurrence of that next minor in the descending-sorted
\* catalog, which is the maximum-patch entry of its minor line, not the
\* minimum-patch one.
C3_FirstOfNextMinorDescending ==
  (Resolved /\ WellFormed(currentVersion)
     /\ WithMinor(currentVersion[2]) # {}
     /\ entries[First(WithMinor(currentVersion[2]))] = currentVersion
     /\ \E j \in WithMinor(currentVersion[2] + 1) :
           j < First(WithMinor(currentVersion[2])))
  => /\ retErr = ""
     /\ IsSortedDescending
     /\ nextVersion = entries[First(WithMinor(currentVersion[2] + 1))]
     /\ nextVersion = MaxPatchOf(MinorLine(nextVersion))

\* C3 witness: a resolution that moved to a next minor line holding two
\* patches.
C3_Witness ==
  /\ pc = "resolved"
  /\ OneMajor(currentVersion)
  /\ IsLatestPatch(currentVersion)
  /\ Cardinality(NextMinorLine(currentVersion)) >= 2
  /\ nextVersion \in NextMinorLine(currentVersion)

\* C4: terminal state.  When the current version is the latest patch of its
\* minor line and no catalog entry has minor current.minor + 1, the resolver
\* returns the current version unchanged and without error, and
\* UpgradeRancher ends there: no prompt, no release notes fetched, no call of
\* the upgrade executor.
C4_Terminal ==
  (Resolved /\ WellFormed(currentVersion)
     /\ IsLatestPatch(currentVersion)
     /\ WithMinor(currentVersion[2] + 1) = {})
  => /\ pc = "uptodate"
     /\ retErr = ""
     /\ nextVersion = currentVersion
     /\ ~prompted
     /\ fetched = <<>>
     /\ ~upgraded

\* C4 on the catalogs whose entries all have the current major.
C4_TerminalOneMajor == OneMajor(currentVersion) => C4_Terminal

\* The installed version is an entry of the catalog.
StartedInCatalog == seen[1] \in catalog
\* A version occurs twice in the sequence only as its last two elements, at
\* the fixed point.
NoRevisit ==
  \A i, j \in 1..Len(seen) :
    (i < j /\ seen[i] = seen[j])
      => (pc = "uptodate" /\ j = Len(seen) /\ i = j - 1)

\* C5: for a catalog with unique entries and an installed version taken from
\* it, repeated resolution never fails, never returns a version already in
\* the sequence until it returns the version it was given (the fixed point),
\* and has reached that fixed point before the sequence is longer than the
\* catalog allows.
C5_NoRevisitFixedPoint ==
  StartedInCatalog
  => /\ retErr = ""
     /\ NoRevisit
     /\ \A i \in 1..Len(seen) : seen[i] \in catalog
     /\ Len(seen) <= Cardinality(catalog) + 1
     /\ pc \in {"resolve", "resolved", "uptodate"}
     /\ (pc = "uptodate" => nextVersion = currentVersion)

\* C5 witness: patch, then next minor, then the fixed point.
C5_Witness ==
  /\ pc = "uptodate"
  /\ Len(seen) = 4
  /\ seen[1][2] = seen[2][2] /\ seen[1][3] < seen[2][3]
  /\ seen[3][2] = seen[2][2] + 1
  /\ seen[4] = seen[3]

\* ---------------------------------------------- claims on the range builder
SameLine(a, b) == a[1] = b[1] /\ a[2] = b[2]
RangeReturned == pc \in {"ranged", "range-failed", "range-crashed"}

\* C6: for start and end on the same major.minor with end.patch =
\* start.patch + n, n >= 0, the range builder returns exactly n + 1 versions,
\* the i-th being (major, minor, start.patch + i): the first is start, the
\* last is end.
C6_RangeInclusive ==
  (RangeReturned /\ WellFormed(currentVersion) /\ WellFormed(nextVersion)
     /\ SameLine(currentVersion, nextVersion)
     /\ nextVersion[3] >= currentVersion[3])
  => /\ pc = "ranged"
     /\ retErr = ""
     /\ Len(releases) = nextVersion[3] - currentVersion[3] + 1
     /\ \A i \in 1..Len(releases) :
          releases[i] = <<currentVersion[1], currentVersion[2],
                          currentVersion[3] + i - 1>>
     /\ releases[1] = currentVersion
     /\ releases[Len(releases)] = nextVersion

\* C6 witness: a range of three versions has been built.
C6_Witness ==
  /\ pc = "ranged"
  /\ SameLine(currentVersion, nextVersion)
  /\ nextVersion[3] = currentVersion[3] + 2
  /\ Len(releases) = 3

\* C7: for start and end on the same major.minor with end.patch <
\* start.patch, the range builder returns the empty range, whatever the gap:
\* no crash and no non-empty result.
C7_ReversedRangeEmpty ==
  (RangeReturned /\ WellFormed(currentVersion) /\ WellFormed(nextVersion)
     /\ SameLine(currentVersion, nextVersion)
     /\ nextVersion[3] < currentVersion[3])
  => (pc = "ranged" /\ retErr = "" /\ releases = <<>>)

\* C7 for the gap of one patch, where diff + 1 wraps to 0.
C7_ReversedByOneEmpty ==
  (RangeReturned /\ WellFormed(currentVersion) /\ WellFormed(nextVersion)
     /\ SameLine(currentVersion, nextVersion)
     /\ nextVersion[3] + 1 = currentVersion[3])
  => (pc = "ranged" /\ retErr = "" /\ releases = <<>>)

\* C8: the range builder returns an error and no versions whenever start and
\* end differ in major or in minor; in particular for the range
\* UpgradeRancher builds from the current version to a resolved version on
\* the next minor line.
C8_CrossLineRejected ==
  (RangeReturned /\ WellFormed(currentVersion) /\ WellFormed(nextVersion)
     /\ ~SameLine(currentVersion, nextVersion))
  => (pc = "range-failed" /\ retErr # "" /\ releases = <<>>)

\* ----------------------------------------------------- claims on the differ
\* C9: the differ fetches the versions of the range one at a time in range
\* order; when the fetch at index k fails it returns that error with no
\* bugfix and no known-issue results at all, retries nothing and fetches no
\* version after index k.
C9_FetchFailureAborts ==
  /\ Len(fetched) <= Len(releases)
  /\ \A i \in 1..Len(fetched) : fetched[i].release = releases[i]
  /\ \A k \in 1..Len(fetched) :
       fetched[k].err
         => /\ k = Len(fetched)
            /\ pc = "notes-failed"
            /\ retErr = "fetch"
            /\ bugfixes = <<>>
            /\ knownIssues = <<>>
  /\ (pc = "notes-failed" => ~ENABLED NextDiff)

\* C9 witness: the second fetch of a range of three failed after the first
\* had given a bugfix section.
C9_Witness ==
  /\ pc = "notes-failed"
  /\ Len(releases) = 3
  /\ Len(fetched) = 2
  /\ fetched[2].err
  /\ lastReleaseBugfixes # <<>>

\* C10: every failure of the changelog fetcher, an HTTP 4xx or 5xx response
\* included, is returned by the differ as an error; the body of a failed
\* response is never taken as the notes of the version.
C10_ErrorStatusSurfaced ==
  \A k \in 1..Len(fetched) :
    (fetched[k].err \/ fetched[k].status # "200")
      => (k = Len(fetched) /\ pc = "notes-failed" /\ retErr = "fetch")

\* The Section Extracts of a notes document, as parseReleaseNotes takes them.
BugSection(doc) ==
  parseNotesSections(majorBugFixHeader, rancherBehaviorChangesHeader,
                     ReplaceAll(doc, markdownComment)).body
KnownSection(doc) ==
  parseNotesSections(knownIssuesHeader, installUpgradeNotesHeader,
                     ReplaceAll(doc, markdownComment)).body
\* strings.Join(bullets, "- "): the text a bullet list was split from.
RECURSIVE Join(_)
Join(bullets) ==
  IF Len(bullets) = 0 THEN <<>>
  ELSE IF Len(bullets) = 1 THEN bullets[1]
  ELSE bullets[1] \o bulletDelimiter \o Join(Tail(bullets))
IsStrictPrefix(a, b) == Len(a) < Len(b) /\ SubSeq(b, 1, Len(a)) = a
Suffix(a, b) == SubSeq(b, Len(a) + 1, Len(b))
\* The bullets of a list that are displayed.
DisplayedBullets(bullets) ==
  {bullets[i] : i \in {j \in 1..Len(bullets) : Displayed(bullets[j])}}

\* C11: for three notes documents whose bugfix sections are non-empty, the
\* first a strict prefix of the second and the second a strict prefix of the
\* third, the differ yields at index 0 the whole of section 1, at index 1
\* exactly the suffix document 2 appended and at index 2 exactly the suffix
\* document 3 appended; the three additions concatenated are section 3 and
\* no bullet is displayed at two indexes.
C11_PrefixChainAdditions ==
  (pc \in {"notes", "parsed"} /\ index >= 3)
  => LET s1 == BugSection(fetched[1].body)
         s2 == BugSection(fetched[2].body)
         s3 == BugSection(fetched[3].body)
     IN (s1 # <<>> /\ IsStrictPrefix(s1, s2) /\ IsStrictPrefix(s2, s3))
        => /\ Join(bugfixes[1]) = s1
           /\ Join(bugfixes[2]) = Suffix(s1, s2)
           /\ Join(bugfixes[3]) = Suffix(s2, s3)
           /\ Join(bugfixes[1]) \o Join(bugfixes[2]) \o Join(bugfixes[3]) = s3
           /\ \A i, j \in 1..3 :
                i < j => DisplayedBullets(bugfixes[i])
                           \cap DisplayedBullets(bugfixes[j]) = {}

\* C11 witness: the differ has processed three documents, each extending the
\* one before, and holds the one new bullet of the third at index 2.
C11_Witness ==
  /\ pc = "parsed"
  /\ index = 3
  /\ fetched[1].body = DocOne
  /\ fetched[2].body = DocTwo
  /\ fetched[3].body = DocThree
  /\ bugfixes[3] = <<<<>>, <<"c">>>>

\* C12: inside the differ, after the version at index i has been processed,
\* the carried bugfix state and the carried known-issues state are the full
\* Section Extracts of version i, never the additions emitted for it; the
\* addition at index 0 is the full extract, and the addition at an index
\* i > 0 is computed from the full extracts of versions i and i - 1 only.
C12_CarriedFullExtracts ==
  (pc \in {"notes", "parsed"} /\ index >= 1)
  => /\ Len(fetched) = index
     /\ lastReleaseBugfixes = BugSection(fetched[index].body)
     /\ lastReleaseKnownIssues = KnownSection(fetched[index].body)
     /\ bugfixes[1] = parseBulletPoints(BugSection(fetched[1].body))
     /\ knownIssues[1] = parseBulletPoints(KnownSection(fetched[1].body))
     /\ \A i \in 2..index :
          /\ bugfixes[i] =
               parseBulletPoints(
                 recentAddition(BugSection(fetched[i].body),
                                BugSection(fetched[i - 1].body)))
          /\ knownIssues[i] =
               parseBulletPoints(
                 recentAddition(KnownSection(fetched[i].body),
                                KnownSection(fetched[i - 1].body)))

\* C12 witness: after the second version the carried state is the full
\* section of the second document while the addition emitted for it is the
\* one new bullet.
C12_Witness ==
  /\ pc = "notes"
  /\ index = 2
  /\ fetched[2].body = DocTwo
  /\ lastReleaseBugfixes = <<"- ", "a", "- ", "b">>
  /\ lastReleaseKnownIssues = <<"- ", "x", "- ", "y">>
  /\ bugfixes[2] = <<<<>>, <<"b">>>>
  /\ knownIssues[2] = <<<<>>, <<"y">>>>

\* The bullets displayed for a section.
SectionBullets(section) == DisplayedBullets(parseBulletPoints(section))

\* C13: for every range and every index i > 0, the bullet list emitted at
\* index i holds exactly the bullets of version i's section that are absent
\* from the section of version i - 1: no bullet of the predecessor's section
\* is emitted again, also when version i inserts a bullet between, or
\* reorders, the predecessor's bullets.
C13_BulletLevelDiff ==
  (pc \in {"notes", "parsed"})
  => \A i \in 2..index :
       /\ DisplayedBullets(bugfixes[i]) =
            SectionBullets(BugSection(fetched[i].body))
              \ SectionBullets(BugSection(fetched[i - 1].body))
       /\ DisplayedBullets(knownIssues[i]) =
            SectionBullets(KnownSection(fetched[i].body))
              \ SectionBullets(KnownSection(fetched[i - 1].body))

\* C13 for a version that inserts a bullet between the predecessor's bullets.
C13_InsertedBulletOnly ==
  (pc \in {"notes", "parsed"})
  => \A i \in 2..index :
       (fetched[i - 1].body = DocTwo /\ fetched[i].body = DocMid)
         => DisplayedBullets(bugfixes[i]) = {<<"n">>}

\* C13 on the versions whose section begins with the whole section of the
\* predecessor.
C13_AppendedBulletsOnly ==
  (pc \in {"notes", "parsed"})
  => \A i \in 2..index :
       LET prev == BugSection(fetched[i - 1].body)
           full == BugSection(fetched[i].body)
       IN (prev # <<>> /\ IsStrictPrefix(prev, full))
            => DisplayedBullets(bugfixes[i]) =
                 SectionBullets(full) \ SectionBullets(prev)

\* ------------------------------------------------- claims on UpgradeRancher
\* C14: in every run of UpgradeRancher the upgrade executor is invoked only
\* after every continue or acknowledge prompt shown before it was answered
\* yes: once the initial confirmation, a bugfix prompt or a known-issue
\* acknowledgement got another answer (cont is false), the upgrade executor
\* is never invoked in that run.
C14_UpgradeOnlyAfterYes ==
  /\ upgraded => cont
  /\ (pc = "declined" => ~upgraded)

\* C14 for the initial confirmation alone.
C14_InitialDeclineStops ==
  [][pc = "declined" => pc' = "declined" /\ ~upgraded']_vars

\* C15: when the initialisation of the client fails, UpgradeRancher returns
\* that failure as an error to its caller: the process is not terminated
\* from inside the tool and no release lookup, resolution or upgrade is
\* attempted on the client that was not initialised.
C15_InitFailurePropagated ==
  (pc # "start" /\ helmExecer = "nil")
  => /\ retErr # ""
     /\ pc \notin {"exited", "find", "find-crashed"}
     /\ Len(seen) = 1
     /\ ~upgraded

\* ------------------------------------- further claims on the resolver
\* C16: the resolver never returns a version lower than the current one: for
\* every current version and catalog on which it succeeds the result is
\* greater than or equal to the current version in (major, minor, patch)
\* order, also when the current version is absent from the catalog and
\* higher than every entry of its minor line.
C16_NeverLower ==
  (Resolved /\ retErr = "" /\ WellFormed(currentVersion))
  => ~Less(nextVersion, currentVersion)

\* C16 on the catalogs that hold the current version and entries of its
\* major only.
C16_NeverLowerFromCatalog ==
  (currentVersion \in catalog /\ OneMajor(currentVersion)) => C16_NeverLower

\* C17: the resolver never leaves the current major line: for every catalog
\* that mixes several majors the version it returns has the major of the
\* current version.
C17_SameMajor ==
  (Resolved /\ retErr = "" /\ WellFormed(currentVersion))
  => nextVersion[1] = currentVersion[1]

\* ------------------------------------------- claims on the walkthrough
\* The positions of UpgradeRancher after walkthroughRelevantNotes returned
\* without error.
AfterWalk ==
  {"values", "option", "upload", "upgrade", "done", "upgrade-failed",
   "values-failed"}

\* C18: for every range of n >= 1 releases with aligned bugfix and
\* known-issue lists, walkthroughRelevantNotes presents the transitions
\* release[i] -> release[i+1] for i = 0 .. n-2 in that order, all of them
\* unless the user declines or the input fails, and never reads releases,
\* bugfixes or knownIssues at an index >= n.
C18_WalkthroughInRange ==
  (Len(releases) >= 1 /\ Len(bugfixes) = Len(releases)
     /\ Len(knownIssues) = Len(releases))
  => /\ pc # "walk-crashed"
     /\ (pc \in {"bugfixPrompt", "issuePrompt"}
           => walkIndex + 1 < Len(releases))
     /\ (pc \in AfterWalk /\ cont => walkIndex = Len(releases) - 1)

\* C18 for the ranges of exactly len(release) = 5 releases.
C18_WalkthroughOfFive ==
  (Len(releases) = 5) => C18_WalkthroughInRange

\* C18 for the ranges of two releases on one minor line.
C18_WalkthroughOfTwo ==
  (Len(releases) = 2 /\ SameLine(currentVersion, nextVersion))
  => C18_WalkthroughInRange

\* ------------------------------- specification: promptForContinue alone
MaxReads == 4

InitPrompt ==
  /\ pc = "prompt"
  /\ retErr = ""
  /\ entries = <<>>
  /\ currentVersion = NoVersion
  /\ nextVersion = NoVersion
  /\ seen = <<>>
  /\ DifferIdle
  /\ PromptsIdle

\* One iteration of the loop of promptForContinue: a line is read; the
\* function returns on a reader error and when the loop is left, and cont
\* holds what it returned.
ReadLine ==
  /\ pc = "prompt"
  /\ Len(lines) < MaxReads
  /\ \E read \in PromptLines \cup {EndOfInput} :
       LET answer == promptForContinue(read) IN
         /\ lines' = Append(lines, read)
         /\ pc' = CASE answer = "err" -> "prompt-failed"
                    [] answer = "again" -> "prompt"
                    [] OTHER -> "prompt-returned"
         /\ cont' = (answer = "yes")
         /\ retErr' = IF answer = "err" THEN "read" ELSE retErr
  /\ UNCHANGED <<resolverVars, differVars, helmExecer, prompted, walkIndex,
                 issueIndex, values, upgraded>>

NextPrompt == ReadLine

SpecPrompt == InitPrompt /\ [][NextPrompt]_vars

\* The last line read, trimmed and lower-cased.
LastAnswer == TrimLower(lines[Len(lines)])

\* C19: promptForContinue returns only once it has read a line that, trimmed
\* and lower-cased, is "y" or "n", or the reader has failed: it returns true
\* exactly for "y", false for "n", and after any other line, empty or not,
\* it prompts again instead of returning a decision.
C19_ReturnsOnlyOnYesOrNo ==
  /\ pc = "prompt-returned"
       => (LastAnswer \in {"y", "n"} /\ cont = (LastAnswer = "y"))
  /\ pc = "prompt-failed" => lines[Len(lines)] = EndOfInput
  /\ (pc = "prompt" /\ lines # <<>>) => LastAnswer \notin {"y", "n"}
  /\ \A i \in 1..(Len(lines) - 1) :
       lines[i] # EndOfInput /\ TrimLower(lines[i]) \notin {"y", "n"}

\* C19 for the empty answers: the prompt is repeated after a line that is
\* empty once trimmed, and true is returned for "y" only.
C19_EmptyLinePromptsAgain ==
  /\ (pc = "prompt-returned" /\ cont) => LastAnswer = "y"
  /\ (pc = "prompt-returned" /\ LastAnswer = "n") => ~cont
  /\ (pc = "prompt-returned") => LastAnswer # ""
  /\ \A i \in 1..(Len(lines) - 1) : TrimLower(lines[i]) = ""

\* ------------------------------------------ claims on section extraction
\* The notes of the k-th fetch as the section extraction receives them.
NotesOf(k) == ReplaceAll(fetched[k].body, markdownComment)
\* A header of the pair is missing from the notes.
HeaderMissing(header1, header2, notes) ==
  Index(notes, header1) = -1 \/ Index(notes, header2) = -1

\* C20: parseNotesSections returns normally for every notes document: the
\* empty extract when the begin marker or the end marker is missing and a
\* span of the document otherwise, also when the end marker occurs before
\* the begin marker; it never crashes on an inverted span.
C20_ExtractionNeverCrashes ==
  /\ pc # "notes-crashed"
  /\ \A k \in 1..Len(fetched) :
       ~fetched[k].err
         => /\ ~parseNotesSections(majorBugFixHeader,
                                   rancherBehaviorChangesHeader,
                                   NotesOf(k)).panic
            /\ ~parseNotesSections(knownIssuesHeader,
                                   installUpgradeNotesHeader,
                                   NotesOf(k)).panic

\* C20 for the documents that lack a header: the extract is empty and the
\* extraction returns.
C20_MissingHeaderEmpty ==
  \A k \in 1..Len(fetched) :
    (~fetched[k].err
       /\ HeaderMissing(majorBugFixHeader, rancherBehaviorChangesHeader,
                        NotesOf(k)))
      => /\ parseNotesSections(majorBugFixHeader,
                               rancherBehaviorChangesHeader, NotesOf(k))
              = [body |-> <<>>, panic |-> FALSE]
         /\ (k = Len(fetched) => pc \in {"notes", "parsed"})
         /\ (k <= index /\ pc \in {"notes", "parsed"}
               => bugfixes[k] = <<<<>>>>)

\* ------------------------------------------ claims on chartValuesPrompt
\* chartValuesPrompt returns its values: the step from the option prompt to
\* the call of the upgrade executor.
ValuesReturned == pc = "option" /\ pc' = "upgrade"
\* uploadValuesPrompt failed: it gives back no values (a loaded file gives
\* the values of the file).
UploadFailed == pc = "upload" /\ values' = "none"

\* C21: chartValuesPrompt returns override values only after the user
\* selects option 1, and the values returned are the ones most recently
\* displayed; when the user selects option 2 and reading or parsing the
\* values file fails, that error is returned to the caller and the active
\* override values are never silently replaced by an empty set that a later
\* option 1 would then apply to the upgrade.
C21_ValuesPrompt ==
  [][/\ pc' = "upgrade" => (ValuesReturned /\ values' = values)
     /\ pc = "option" => values' = values
     /\ UploadFailed => (retErr' # "" /\ pc' = "values-failed")
     /\ (values # "none" /\ values' = "none") => retErr' # ""]_vars

\* C21 without its part on the failed upload: the values are returned only
\* on option 1 and are the ones displayed before the option prompt.
C21_ReturnedOnOptionOne ==
  [][/\ pc' = "upgrade" => (ValuesReturned /\ values' = values)
     /\ pc = "option" => values' = values]_vars

====
